---------------------------- MODULE Spec2Model ----------------------------
(***************************************************************************)
(* Model of the simply-supported RC beam design pipeline:                  *)
(*   PreliminarySizing, LoadAnalysis, StructuralAnalysis (DesignStep).     *)
(*                                                                         *)
(* A state is one step object together with one call on it: the caller's   *)
(* parameter mapping, the position of the call (called / returned /        *)
(* raised), the returned results object or the raised error, and the list  *)
(* of internal calculation steps the call has executed.  heap holds the     *)
(* identities of the dict objects involved (self.results, the caller's     *)
(* mapping, the returned results), log the earlier calls on the object.    *)
(*                                                                         *)
(* Numbers are exact rationals <<n, d>> (d > 0, lowest terms).  Python     *)
(* floats are modelled by their exact values; IEEE specials (nan, inf)     *)
(* and binary rounding error are outside the value domain.                 *)
(***************************************************************************)
EXTENDS Integers, Sequences, FiniteSets, TLC

VARIABLES obj, method, parameters, pc, ret, exc, trace, heap, log

vars == <<obj, method, parameters, pc, ret, exc, trace, heap, log>>

---------------------------------------------------------------------------
(* Bounds of the model *)

\* measured quantities are multiples of 1/Grain
Grain == 2
\* largest span numerator (PreliminarySizing.design), in 1/Grain inches
MaxSpanN == 260
\* PreliminarySizing.verify: spans are multiples of 16/Grain up to this many
MaxVerifySpan == 3
\* PreliminarySizing.verify: largest depth / width numerator
MaxDimN == 6
\* LoadAnalysis: largest dead load numerator and largest optional load numerator
MaxDead == 2
MaxLoad == 1
\* StructuralAnalysis: largest span / load numerators, largest num_points
MaxLenN == 40
MaxWuN == 5
MaxPoints == 5
\* calls made in a row on one step object
MaxCalls == 3

---------------------------------------------------------------------------
(* Rational arithmetic (the values Python's float arithmetic denotes) *)

Abs(n) == IF n < 0 THEN -n ELSE n

RECURSIVE GCD(_, _)
GCD(a, b) == IF b = 0 THEN a ELSE GCD(b, a % b)

Norm(n, d) ==
    LET s == IF d < 0 THEN -1 ELSE 1
        g == GCD(Abs(n), Abs(d))
    IN  <<(s * n) \div g, (s * d) \div g>>

Q(n, d) == Norm(n, d)
QInt(n) == <<n, 1>>
QAdd(a, b) == Norm(a[1] * b[2] + b[1] * a[2], a[2] * b[2])
QSub(a, b) == Norm(a[1] * b[2] - b[1] * a[2], a[2] * b[2])
QMul(a, b) == Norm(a[1] * b[1], a[2] * b[2])
QDiv(a, b) == Norm(a[1] * b[2], a[2] * b[1])
QLe(a, b) == a[1] * b[2] <= b[1] * a[2]
QLt(a, b) == a[1] * b[2] < b[1] * a[2]
QEq(a, b) == a[1] * b[2] = b[1] * a[2]
QNeg(a) == <<-a[1], a[2]>>

\* math.ceil
Ceil(a) == -((-a[1]) \div a[2])

\* round(x, 2): nearest multiple of 1/100, ties to the even one
Round2(a) ==
    LET n   == 100 * a[1]
        fl  == n \div a[2]
        rem == n - fl * a[2]
        h   == IF 2 * rem < a[2] THEN fl
               ELSE IF 2 * rem > a[2] THEN fl + 1
               ELSE IF fl % 2 = 0 THEN fl ELSE fl + 1
    IN  Norm(h, 100)

---------------------------------------------------------------------------
(* Python values held by a parameter mapping *)

Absent == [k |-> "absent"]          \* key not in the dict
None == [k |-> "none"]
Str == [k |-> "str"]                \* some non-empty string
PyFloat(n, d) == [k |-> "float", q |-> Q(n, d)]
PyInt(n) == [k |-> "int", q |-> QInt(n)]
Null == [k |-> "null"]              \* no results object / no error

\* key in params
Has(params, key) == params[key] # Absent
\* isinstance(value, (int, float))
IsNumber(v) == v.k \in {"int", "float"}
\* isinstance(value, int)
IsInt(v) == v.k = "int"
\* params.get(key): None when the key is missing
Get(params, key) == IF Has(params, key) THEN params[key] ELSE None
\* bool(value)
Truthy(v) == IF IsNumber(v) THEN v.q[1] # 0 ELSE v.k = "str"

---------------------------------------------------------------------------
(* core/exceptions.py *)

\* str(InputError(parameter, message))
InputError(parameter, message) ==
    [kind |-> "InputError", parameter |-> parameter, message |-> message,
     text |-> <<"Invalid input parameter '", parameter, "': ", message>>]

\* an exception of the standard library raised inside a calculation
PyError(kind, text) == [kind |-> kind, text |-> <<text>>]

DesignError(step, e) ==
    [kind |-> "DesignError", step |-> step, message |-> e.text]

VerificationError(step, e) ==
    [kind |-> "VerificationError", step |-> step, message |-> e.text]

NoError == Null

---------------------------------------------------------------------------
(* utils/validators.py *)

ValidateNumericPositiveLax(value, param_name) ==
    IF ~IsNumber(value) THEN InputError(param_name, "Must be a number")
    ELSE IF value.q[1] < 0 THEN InputError(param_name, "Must be positive")
    ELSE NoError

\* validate_numeric_positive: the error it raises, or NoError
ValidateNumericPositive(value, param_name) ==
    IF ~IsNumber(value) THEN InputError(param_name, "Must be a number")
    ELSE IF value.q[1] <= 0 THEN InputError(param_name, "Must be positive")
    ELSE NoError

---------------------------------------------------------------------------
(* core/design_step.py *)

\* DesignStep.__init__
DesignStepInit ==
    [step_name |-> "base_step",
     results |-> [design_mode |-> <<>>, verify_mode |-> <<>>]]

\* dict objects by identity: self.results is object 1, the caller's mapping
\* object 2; ret = 0 when no results object has been returned
InitHeap == [self_results |-> 1, args |-> 2, ret |-> 0, top |-> 2]

\* the call hands back the dict held by self.results
AllocateShared(h, returned) ==
    IF returned THEN [h EXCEPT !.ret = h.self_results] ELSE [h EXCEPT !.ret = 0]

\* results = {...}: a returning call builds its results in a new dict
Allocate(h, returned) ==
    IF returned THEN [h EXCEPT !.top = h.top + 1, !.ret = h.top + 1]
    ELSE [h EXCEPT !.ret = 0]

---------------------------------------------------------------------------
(* steps/preliminary_sizing.py *)

\* PreliminarySizing.__init__
PreliminarySizingInit ==
    [step_name |-> "preliminary_sizing",
     results |-> DesignStepInit.results,
     min_depth_factor |-> Q(1, 16)]

\* truncation in place of the ceiling
RoundToEvenTruncating(value) ==
    LET rounded == value[1] \div value[2]
    IN  IF rounded % 2 = 0 THEN rounded ELSE rounded + 1

\* _round_to_even: ceiling, plus one when the ceiling is odd
RoundToEven(value) ==
    LET rounded == Ceil(value)
    IN  IF rounded % 2 = 0 THEN rounded ELSE rounded + 1

\* _calculate_min_depth
CalculateMinDepth(self, span) ==
    LET min_h     == QMul(span, self.min_depth_factor)
        rounded_h == RoundToEven(min_h)
    IN  [calculations |-> [formula |-> "L/16", calculated |-> min_h,
                           rounded |-> rounded_h, units |-> "inches"],
         explanations |-> << <<"Minimum depth per ACI 318-19", min_h, rounded_h>> >>,
         design_depth |-> rounded_h]

\* _calculate_width
CalculateWidth(depth) ==
    LET min_b     == QDiv(QInt(depth), QInt(2))
        max_b     == QDiv(QMul(QInt(2), QInt(depth)), QInt(3))
        ideal_b   == QDiv(QAdd(min_b, max_b), QInt(2))
        rounded_b == RoundToEven(ideal_b)
        lo        == RoundToEven(min_b)
        hi        == RoundToEven(max_b)
        \* min(max(rounded_b, lo), hi)
        raised    == IF rounded_b > lo THEN rounded_b ELSE lo
        final_b   == IF raised < hi THEN raised ELSE hi
    IN  [calculations |-> [min |-> min_b, max |-> max_b, recommended |-> final_b],
         explanations |-> << <<"Width range", min_b, max_b, final_b>> >>,
         design_width |-> final_b]

\* _validate_design_inputs: the InputError it raises, or NoError
PSValidateDesignInputs(params) ==
    IF ~Has(params, "span_length")
    THEN InputError("span_length", "Required for design mode")
    ELSE ValidateNumericPositive(params.span_length, "span_length")

\* the body of PreliminarySizing.design after validation
PSDesignResults(self, params) ==
    LET span_length == params.span_length.q
        min_depth   == CalculateMinDepth(self, span_length)
        width_data  == CalculateWidth(min_depth.design_depth)
    IN  [inputs |-> [span_length |-> params.span_length],
         calculations |-> [depth |-> min_depth.calculations,
                           width |-> width_data.calculations],
         explanations |-> min_depth.explanations \o width_data.explanations,
         requirements_check |-> <<>>,
         final_dimensions |-> [depth |-> min_depth.design_depth,
                               width |-> width_data.design_width,
                               units |-> "inches"]]

\* PreliminarySizing.design
PSDesign ==
    /\ pc = "called"
    /\ obj.step_name = "preliminary_sizing"
    /\ method = "design"
    /\ LET err == PSValidateDesignInputs(parameters)
       IN  IF err # NoError
           THEN /\ pc' = "raised"
                /\ exc' = DesignError(obj.step_name, err)
                /\ ret' = Null
                /\ trace' = <<"_validate_design_inputs">>
           ELSE /\ pc' = "returned"
                /\ exc' = Null
                /\ ret' = PSDesignResults(obj, parameters)
                /\ trace' = <<"_validate_design_inputs", "_calculate_min_depth",
                              "_calculate_width">>
    /\ heap' = Allocate(heap, pc' = "returned")
    /\ UNCHANGED <<obj, method, parameters, log>>

\* presence of every required parameter is checked before any value
ValidateRequiredPresenceFirst(params, required, missing_message) ==
    LET missing(i) == ~Has(params, required[i])
        bad(i)     == ValidateNumericPositive(params[required[i]], required[i]) # NoError
    IN  IF \E i \in 1..Len(required) : missing(i)
        THEN InputError(required[CHOOSE i \in 1..Len(required) :
                                     missing(i) /\ \A j \in 1..(i - 1) : ~missing(j)],
                        missing_message)
        ELSE IF \E i \in 1..Len(required) : bad(i)
        THEN LET i == CHOOSE i \in 1..Len(required) :
                          bad(i) /\ \A j \in 1..(i - 1) : ~bad(j)
             IN  ValidateNumericPositive(params[required[i]], required[i])
        ELSE NoError

\* the validation loop over the required parameters (_validate_inputs,
\* _validate_verification_inputs): each parameter in order must be present and
\* then a positive number; the first offending one is reported
RECURSIVE ValidateRequired(_, _, _)
ValidateRequired(params, required, missing_message) ==
    IF required = <<>> THEN NoError
    ELSE LET param == Head(required)
         IN  IF ~Has(params, param) THEN InputError(param, missing_message)
             ELSE LET err == ValidateNumericPositive(params[param], param)
                  IN  IF err # NoError THEN err
                      ELSE ValidateRequired(params, Tail(required), missing_message)

\* depth is looked at before span_length
PSValidateVerificationInputsDepthFirst(params) ==
    ValidateRequired(params, <<"depth", "span_length", "width">>,
                     "Required for verification")

PSValidateVerificationInputs(params) ==
    ValidateRequired(params, <<"span_length", "depth", "width">>,
                     "Required for verification")

DepthCheckStrict(self, span, h) == QLt(QMul(span, self.min_depth_factor), h)

\* h_check = h >= span * self.min_depth_factor
DepthCheck(self, span, h) == QLe(QMul(span, self.min_depth_factor), h)

\* b_check = h / 2 <= b <= 2 * h / 3
WidthCheck(h, b) ==
    LET min_b == QDiv(h, QInt(2))
        max_b == QDiv(QMul(QInt(2), h), QInt(3))
    IN  QLe(min_b, b) /\ QLe(b, max_b)

PassFail(check) == IF check THEN "PASS" ELSE "FAIL"

\* the body of PreliminarySizing.verify after validation
PSVerifyResults(self, provided_design) ==
    LET span    == provided_design.span_length.q
        h       == provided_design.depth.q
        b       == provided_design.width.q
        h_check == DepthCheck(self, span, h)
        b_check == WidthCheck(h, b)
    IN  [provided |-> [depth |-> provided_design.depth,
                       width |-> provided_design.width, units |-> "inches"],
         checks |-> [depth |-> [required |-> QMul(span, self.min_depth_factor),
                                status |-> PassFail(h_check)],
                     width |-> [required |-> <<QDiv(h, QInt(2)),
                                               QDiv(QMul(QInt(2), h), QInt(3))>>,
                                status |-> PassFail(b_check)]],
         explanations |-> <<>>,
         overall |-> [passed |-> h_check /\ b_check,
                      message |-> IF h_check /\ b_check
                                  THEN "All requirements met"
                                  ELSE "Fails 1+ requirements"]]

\* PreliminarySizing.verify
PSVerify ==
    /\ pc = "called"
    /\ obj.step_name = "preliminary_sizing"
    /\ method = "verify"
    /\ LET err == PSValidateVerificationInputs(parameters)
       IN  IF err # NoError
           THEN /\ pc' = "raised"
                /\ exc' = VerificationError(obj.step_name, err)
                /\ ret' = Null
                /\ trace' = <<"_validate_verification_inputs">>
           ELSE /\ pc' = "returned"
                /\ exc' = Null
                /\ ret' = PSVerifyResults(obj, parameters)
                /\ trace' = <<"_validate_verification_inputs", "depth_check",
                              "width_check">>
    /\ heap' = Allocate(heap, pc' = "returned")
    /\ UNCHANGED <<obj, method, parameters, log>>

\* PreliminarySizing.check_requirements: what it raises and what it returns
PSCheckRequirementsOutcome(arg) ==
    [exc |-> Null,
     ret |-> [passed |-> TRUE, message |-> "Requirements check not implemented"]]

PSCheckRequirements ==
    /\ pc = "called"
    /\ obj.step_name = "preliminary_sizing"
    /\ method = "check_requirements"
    /\ LET o == PSCheckRequirementsOutcome(parameters)
       IN  /\ pc' = IF o.exc = Null THEN "returned" ELSE "raised"
           /\ exc' = o.exc
           /\ ret' = o.ret
    /\ trace' = <<>>
    /\ heap' = Allocate(heap, pc' = "returned")
    /\ UNCHANGED <<obj, method, parameters, log>>

\* the calls on a PreliminarySizing object the model explores
NonNumbers == {None, Str}
SpanValues == {Absent} \cup NonNumbers \cup {PyFloat(n, Grain) : n \in -1..MaxSpanN}
VerifySpanValues ==
    {Absent, Str} \cup {PyFloat(16 * j, Grain) : j \in 0..MaxVerifySpan}
DimValues == {Absent, Str} \cup {PyFloat(n, Grain) : n \in 0..MaxDimN}

PSDesignCalls ==
    {[span_length |-> s, depth |-> Absent, width |-> Absent] : s \in SpanValues}
PSVerifyCalls ==
    [span_length : VerifySpanValues, depth : DimValues, width : DimValues]

\* arguments of the placeholder check_requirements: None, or a mapping
PSPlaceholderCalls ==
    {None} \cup [span_length : {Absent, Str, PyFloat(0, 1), PyFloat(64, 1)},
                 depth : {Absent, PyFloat(4, 1)}, width : {Absent, PyFloat(0, 1)}]

InitPS ==
    /\ obj = PreliminarySizingInit
    /\ \/ method = "design" /\ parameters \in PSDesignCalls
       \/ method = "verify" /\ parameters \in PSVerifyCalls
       \/ method = "check_requirements" /\ parameters \in PSPlaceholderCalls

---------------------------------------------------------------------------
(* steps/load_analysis.py *)

\* LoadAnalysis.__init__
LoadAnalysisInit ==
    [step_name |-> "load_analysis", results |-> DesignStepInit.results]

LoadKeys == {"dead_load", "live_load", "roof_live_load", "snow_load",
             "rain_load", "wind_load", "seismic_load"}

\* LoadAnalysis._validate_inputs
LAValidateInputs(params) ==
    IF ~Has(params, "dead_load")
    THEN InputError("dead_load", "Required for load analysis")
    ELSE ValidateNumericPositive(params.dead_load, "dead_load")

\* LoadAnalysis._initialize_results
LAInitializeResults(params) ==
    [inputs |-> [k \in LoadKeys |-> IF params[k] = None THEN Absent ELSE params[k]],
     load_combinations |-> <<>>,
     explanations |-> <<>>,
     controlling_load |-> None]

\* filter(None, values): the truthy entries, in order
FilterNone(values) == SelectSeq(values, Truthy)

\* max(numbers): the first largest entry of a non-empty sequence
RECURSIVE MaxQ(_)
MaxQ(qs) ==
    IF Len(qs) = 1 THEN qs[1]
    ELSE LET m == MaxQ(Tail(qs))
         IN  IF QLt(qs[1], m) THEN m ELSE qs[1]

Quantities(values) == [i \in 1..Len(values) |-> values[i].q]

\* max(filter(None, [Lr, S, R]), default=0)
AddLoad(Lr, S, R) ==
    LET pool == FilterNone(<<Lr, S, R>>)
    IN  IF pool = <<>> THEN QInt(0) ELSE MaxQ(Quantities(pool))

\* (v or 0)
OrZero(v) == IF Truthy(v) THEN v.q ELSE QInt(0)

\* any([Lr, S, R])
AnyRoofLoad(Lr, S, R) == Truthy(Lr) \/ Truthy(S) \/ Truthy(R)

\* [L, 0.5*W if W else None]
SecondaryPool(L, W) ==
    FilterNone(<<L, IF Truthy(W) THEN [k |-> "float", q |-> QMul(Q(1, 2), W.q)]
                    ELSE None>>)

\* _add_combination: the entry appended to load_combinations
Combination(key, name, formula, value) ==
    [key |-> key, name |-> name, formula |-> formula, value |-> value,
     units |-> "kip/ft"]

U1Entry(D) ==
    Combination("U1", "Dead Load Only (ACI 318-19 Eq. 5.3.1a)", "1.4D",
                QMul(Q(14, 10), D))

U2Entry(D, L, Lr, S, R) ==
    Combination("U2", "Basic Load Combination (ACI 318-19 Eq. 5.3.1b)",
                "1.2D + 1.6L + 0.5(Lr/S/R)",
                QAdd(QAdd(QMul(Q(12, 10), D), QMul(Q(16, 10), L.q)),
                     QMul(Q(1, 2), AddLoad(Lr, S, R))))

U3Entry(D, L, Lr, S, R, W) ==
    LET primary   == MaxQ(Quantities(FilterNone(<<Lr, S, R>>)))
        secondary == MaxQ(Quantities(SecondaryPool(L, W)))
    IN  Combination("U3", "Roof/Snow/Rain Combination (ACI 318-19 Eq. 5.3.1c)",
                    "1.2D + 1.6(Lr/S/R) + (L or 0.5W)",
                    QAdd(QAdd(QMul(Q(12, 10), D), QMul(Q(16, 10), primary)),
                         secondary))

U4Entry(D, L, Lr, S, R, W) ==
    Combination("U4", "Wind Load Combination (ACI 318-19 Eq. 5.3.1d)",
                "1.2D + 1.0W + L + 0.5(Lr/S/R)",
                QAdd(QAdd(QAdd(QMul(Q(12, 10), D), QMul(QInt(1), W.q)), OrZero(L)),
                     QMul(Q(1, 2), AddLoad(Lr, S, R))))

U5Entry(D, L, S, E) ==
    Combination("U5", "Seismic Load Combination (ACI 318-19 Eq. 5.3.1e)",
                "1.2D + 1.0E + L + 0.2S",
                QAdd(QAdd(QAdd(QMul(Q(12, 10), D), QMul(QInt(1), E.q)), OrZero(L)),
                     QMul(Q(2, 10), OrZero(S))))

U6Entry(D, W) ==
    Combination("U6", "Wind Uplift (ACI 318-19 Eq. 5.3.1f)", "0.9D + 1.0W",
                QAdd(QMul(Q(9, 10), D), QMul(QInt(1), W.q)))

U7Entry(D, E) ==
    Combination("U7", "Seismic Uplift (ACI 318-19 Eq. 5.3.1g)", "0.9D + 1.0E",
                QAdd(QMul(Q(9, 10), D), QMul(QInt(1), E.q)))

\* the combinations design adds, in order, and the error that stops it (if any):
\* U3's secondary max() has no default and raises on an empty pool
LACombinations(params) ==
    LET D  == params.dead_load.q
        L  == Get(params, "live_load")
        Lr == Get(params, "roof_live_load")
        S  == Get(params, "snow_load")
        R  == Get(params, "rain_load")
        W  == Get(params, "wind_load")
        E  == Get(params, "seismic_load")
        c1 == <<U1Entry(D)>>
        c2 == IF L # None THEN Append(c1, U2Entry(D, L, Lr, S, R)) ELSE c1
        u3 == AnyRoofLoad(Lr, S, R)
        bad == u3 /\ SecondaryPool(L, W) = <<>>
        c3 == IF u3 /\ ~bad THEN Append(c2, U3Entry(D, L, Lr, S, R, W)) ELSE c2
        c4 == IF W # None THEN Append(c3, U4Entry(D, L, Lr, S, R, W)) ELSE c3
        c5 == IF E # None THEN Append(c4, U5Entry(D, L, S, E)) ELSE c4
        c6 == IF W # None THEN Append(c5, U6Entry(D, W)) ELSE c5
        c7 == IF E # None THEN Append(c6, U7Entry(D, E)) ELSE c6
    IN  IF bad
        THEN [err |-> PyError("ValueError", "max() arg is an empty sequence"),
              entries |-> c2]
        ELSE [err |-> NoError, entries |-> c7]

\* the index of the entry _set_controlling_load reports: the last match
LastMatch(entries, max_load) ==
    CHOOSE i \in 1..Len(entries) :
        /\ entries[i].value = max_load
        /\ \A j \in (i + 1)..Len(entries) : entries[j].value # max_load

\* the index of the entry _set_controlling_load reports: the loop breaks at the
\* first entry whose value == max_load
FirstMatch(entries, max_load) ==
    CHOOSE i \in 1..Len(entries) :
        /\ entries[i].value = max_load
        /\ \A j \in 1..(i - 1) : entries[j].value # max_load

\* _set_controlling_load
SetControllingLoad(entries) ==
    IF entries = <<>> THEN None
    ELSE LET max_load == MaxQ([i \in 1..Len(entries) |-> entries[i].value])
             i        == FirstMatch(entries, max_load)
         IN  [combination |-> entries[i].key, value |-> max_load,
              units |-> "kip/ft"]

ExplainCombination(entries) ==
    [i \in 1..Len(entries) |->
        <<"Calculated", entries[i].name, entries[i].value, entries[i].formula>>]

\* the body of LoadAnalysis.design after the combinations are computed
LADesignResults(params, entries) ==
    LET init        == LAInitializeResults(params)
        controlling == SetControllingLoad(entries)
    IN  [init EXCEPT !.load_combinations = entries,
                     !.explanations =
                         ExplainCombination(entries) \o
                         (IF controlling = None THEN <<>>
                          ELSE << <<"Controlling load", controlling.combination,
                                    controlling.value>> >>),
                     !.controlling_load = controlling]

Keys(entries) == [i \in 1..Len(entries) |-> entries[i].key]

\* LoadAnalysis.design
LADesign ==
    /\ pc = "called"
    /\ obj.step_name = "load_analysis"
    /\ method = "design"
    /\ LET err == LAValidateInputs(parameters)
       IN  IF err # NoError
           THEN /\ pc' = "raised"
                /\ exc' = DesignError(obj.step_name, err)
                /\ ret' = Null
                /\ trace' = <<"_validate_inputs">>
           ELSE LET c == LACombinations(parameters)
                IN  IF c.err # NoError
                    THEN /\ pc' = "raised"
                         /\ exc' = DesignError(obj.step_name, c.err)
                         /\ ret' = Null
                         /\ trace' = <<"_validate_inputs", "_initialize_results">>
                                         \o Keys(c.entries)
                    ELSE /\ pc' = "returned"
                         /\ exc' = Null
                         /\ ret' = LADesignResults(parameters, c.entries)
                         /\ trace' = <<"_validate_inputs", "_initialize_results">>
                                         \o Keys(c.entries)
                                         \o <<"_set_controlling_load">>
    /\ heap' = Allocate(heap, pc' = "returned")
    /\ UNCHANGED <<obj, method, parameters, log>>

\* a verify that validates its argument the way design does
LAVerifyOutcomeValidating(self, arg) ==
    IF arg = None
    THEN [exc |-> VerificationError(self.step_name,
                                    PyError("TypeError", "not a mapping")),
          ret |-> Null]
    ELSE IF LAValidateInputs(arg) # NoError
    THEN [exc |-> VerificationError(self.step_name, LAValidateInputs(arg)),
          ret |-> Null]
    ELSE [exc |-> Null,
          ret |-> [status |-> "not_implemented",
                   message |-> "Verification not required for load analysis"]]

\* LoadAnalysis.verify: what it raises and what it returns
LAVerifyOutcome(self, arg) ==
    [exc |-> Null,
     ret |-> [status |-> "not_implemented",
              message |-> "Verification not required for load analysis"]]

\* LoadAnalysis.check_requirements: what it raises and what it returns
LACheckRequirementsOutcome(arg) ==
    [exc |-> Null,
     ret |-> [passed |-> TRUE,
              message |-> "Requirements checking not implemented for load analysis"]]

LAVerify ==
    /\ pc = "called"
    /\ obj.step_name = "load_analysis"
    /\ method = "verify"
    /\ LET o == LAVerifyOutcome(obj, parameters)
       IN  /\ pc' = IF o.exc = Null THEN "returned" ELSE "raised"
           /\ exc' = o.exc
           /\ ret' = o.ret
    /\ trace' = <<>>
    /\ heap' = Allocate(heap, pc' = "returned")
    /\ UNCHANGED <<obj, method, parameters, log>>

LACheckRequirements ==
    /\ pc = "called"
    /\ obj.step_name = "load_analysis"
    /\ method = "check_requirements"
    /\ LET o == LACheckRequirementsOutcome(parameters)
       IN  /\ pc' = IF o.exc = Null THEN "returned" ELSE "raised"
           /\ exc' = o.exc
           /\ ret' = o.ret
    /\ trace' = <<>>
    /\ heap' = Allocate(heap, pc' = "returned")
    /\ UNCHANGED <<obj, method, parameters, log>>

\* the calls on a LoadAnalysis object the model explores
DeadValues == {Absent} \cup NonNumbers \cup {PyFloat(n, Grain) : n \in -1..MaxDead}
LoadValues == {Absent} \cup {PyFloat(n, Grain) : n \in -1..MaxLoad}

LADesignCalls ==
    [dead_load : DeadValues, live_load : LoadValues, roof_live_load : LoadValues,
     snow_load : LoadValues, rain_load : LoadValues, wind_load : LoadValues,
     seismic_load : LoadValues]

\* arguments of the placeholder verify / check_requirements: None, or a mapping
LAPlaceholderCalls ==
    {None} \cup [dead_load : DeadValues, live_load : LoadValues,
                 roof_live_load : {Absent}, snow_load : {Absent},
                 rain_load : {Absent}, wind_load : {Absent},
                 seismic_load : {Absent}]

InitLA ==
    /\ obj = LoadAnalysisInit
    /\ \/ method = "design" /\ parameters \in LADesignCalls
       \/ method \in {"verify", "check_requirements"}
          /\ parameters \in LAPlaceholderCalls

---------------------------------------------------------------------------
(* steps/structural_analysis.py *)

\* StructuralAnalysis.__init__
StructuralAnalysisInit ==
    [step_name |-> "structural_analysis", results |-> DesignStepInit.results]

\* num_points when the caller omits it: as design reads it, and as
\* _initialize_results echoes it
DesignDefaultNumPoints == 10
EchoDefaultNumPoints == 21
MinNumPoints == 2

\* the isinstance test is left out
ValidateNumPointsNoTypeCheck(params) ==
    IF Has(params, "num_points")
       /\ (~IsNumber(params.num_points) \/ params.num_points.q[1] < 2)
    THEN InputError("num_points", "Must be integer >= 2")
    ELSE NoError

\* the num_points check of StructuralAnalysis._validate_inputs (the message's
\* GREATER-THAN OR EQUAL TO sign is written >= here)
ValidateNumPoints(params) ==
    IF Has(params, "num_points")
       /\ (~IsInt(params.num_points) \/ params.num_points.q[1] < MinNumPoints)
    THEN InputError("num_points", "Must be integer >= 2")
    ELSE NoError

\* StructuralAnalysis._validate_inputs
SAValidateInputs(params) ==
    LET err == ValidateRequired(params, <<"span_length", "factored_load">>,
                                "Required for structural analysis")
    IN  IF err # NoError THEN err ELSE ValidateNumPoints(params)

\* StructuralAnalysis._initialize_results
SAInitializeResults(params) ==
    [inputs |-> [span_length |-> params.span_length,
                 factored_load |-> params.factored_load,
                 num_points |-> IF Has(params, "num_points") THEN params.num_points
                                ELSE PyInt(EchoDefaultNumPoints)],
     reactions |-> <<>>,
     maximum_values |-> <<>>,
     diagrams |-> <<>>,
     calculations |-> <<>>,
     explanations |-> <<>>]

\* _calculate_reactions
CalculateReactions(wu, L) ==
    LET reaction == QDiv(QMul(wu, L), QInt(2))
    IN  [Ra |-> reaction, Rb |-> reaction, formula |-> "R = wu*L/2",
         units |-> "kip",
         explanation |-> <<"Reactions at both supports", reaction>>]

\* _calculate_max_values
CalculateMaxValues(wu, L) ==
    LET max_shear  == QDiv(QMul(wu, L), QInt(2))
        max_moment == QDiv(QMul(wu, QMul(L, L)), QInt(8))
    IN  [shear |-> [value |-> max_shear, location |-> "at supports",
                    formula |-> "Vmax = wu*L/2", units |-> "kip"],
         moment |-> [value |-> max_moment, location |-> "midspan",
                     formula |-> "Mmax = wu*L^2/8", units |-> "kip-ft"],
         explanations |-> << <<"Maximum shear", max_shear>>,
                             <<"Maximum moment", max_moment>> >>]

\* _generate_diagrams
GenerateDiagrams(wu, L, num_points) ==
    LET step     == QDiv(L, QInt(num_points - 1))
        x_coords == [j \in 1..num_points |-> QMul(QInt(j - 1), step)]
        shear    == [j \in 1..num_points |->
                        QMul(wu, QSub(QDiv(L, QInt(2)), x_coords[j]))]
        moment   == [j \in 1..num_points |->
                        QDiv(QMul(QMul(wu, x_coords[j]), QSub(L, x_coords[j])),
                             QInt(2))]
    IN  [x_coordinates |-> [j \in 1..num_points |-> Round2(x_coords[j])],
         shear_values |-> [j \in 1..num_points |-> Round2(shear[j])],
         moment_values |-> [j \in 1..num_points |-> Round2(moment[j])],
         units |-> [x |-> "ft", shear |-> "kip", moment |-> "kip-ft"],
         explanation |-> <<"Generated data points", num_points>>]

\* the body of StructuralAnalysis.design after validation
SADesignResults(params) ==
    LET init       == SAInitializeResults(params)
        L          == params.span_length.q
        wu         == params.factored_load.q
        num_points == IF Has(params, "num_points") THEN params.num_points.q[1]
                      ELSE DesignDefaultNumPoints
        reaction   == CalculateReactions(wu, L)
        max_values == CalculateMaxValues(wu, L)
        diagrams   == GenerateDiagrams(wu, L, num_points)
    IN  [init EXCEPT !.reactions = reaction,
                     !.maximum_values = max_values,
                     !.diagrams = diagrams,
                     !.explanations = <<reaction.explanation>>
                                          \o max_values.explanations
                                          \o <<diagrams.explanation>>]

\* StructuralAnalysis.design
SADesign ==
    /\ pc = "called"
    /\ obj.step_name = "structural_analysis"
    /\ method = "design"
    /\ LET err == SAValidateInputs(parameters)
       IN  IF err # NoError
           THEN /\ pc' = "raised"
                /\ exc' = DesignError(obj.step_name, err)
                /\ ret' = Null
                /\ trace' = <<"_validate_inputs">>
           ELSE /\ pc' = "returned"
                /\ exc' = Null
                /\ ret' = SADesignResults(parameters)
                /\ trace' = <<"_validate_inputs", "_initialize_results",
                              "_calculate_reactions", "_calculate_max_values",
                              "_generate_diagrams">>
    /\ heap' = Allocate(heap, pc' = "returned")
    /\ UNCHANGED <<obj, method, parameters, log>>

\* StructuralAnalysis.verify: what it raises and what it returns
SAVerifyOutcome(arg) ==
    [exc |-> Null,
     ret |-> [status |-> "not_implemented",
              message |-> "Verification not required for structural analysis"]]

\* StructuralAnalysis.check_requirements: what it raises and what it returns
SACheckRequirementsOutcome(arg) ==
    [exc |-> Null,
     ret |-> [passed |-> TRUE,
              message |->
                  "Requirements checking not implemented for structural analysis"]]

SAVerify ==
    /\ pc = "called"
    /\ obj.step_name = "structural_analysis"
    /\ method = "verify"
    /\ LET o == SAVerifyOutcome(parameters)
       IN  /\ pc' = IF o.exc = Null THEN "returned" ELSE "raised"
           /\ exc' = o.exc
           /\ ret' = o.ret
    /\ trace' = <<>>
    /\ heap' = Allocate(heap, pc' = "returned")
    /\ UNCHANGED <<obj, method, parameters, log>>

SACheckRequirements ==
    /\ pc = "called"
    /\ obj.step_name = "structural_analysis"
    /\ method = "check_requirements"
    /\ LET o == SACheckRequirementsOutcome(parameters)
       IN  /\ pc' = IF o.exc = Null THEN "returned" ELSE "raised"
           /\ exc' = o.exc
           /\ ret' = o.ret
    /\ trace' = <<>>
    /\ heap' = Allocate(heap, pc' = "returned")
    /\ UNCHANGED <<obj, method, parameters, log>>

\* the calls on a StructuralAnalysis object the model explores
LengthValues == {Absent} \cup NonNumbers \cup {PyFloat(n, Grain) : n \in -1..MaxLenN}
WuValues == {Absent} \cup NonNumbers \cup {PyFloat(n, Grain) : n \in -1..MaxWuN}
NumPointsValues ==
    {Absent, Str, PyFloat(3, 1)} \cup {PyInt(n) : n \in 0..MaxPoints}

SADesignCalls ==
    [span_length : LengthValues, factored_load : WuValues,
     num_points : NumPointsValues]

\* arguments of the placeholder verify / check_requirements: None, or a mapping
SAPlaceholderCalls ==
    {None} \cup [span_length : {Absent, Str, PyFloat(0, 1), PyFloat(20, 1)},
                 factored_load : {Absent, None, PyFloat(5, 2)},
                 num_points : {Absent, PyInt(1), PyInt(3)}]

InitSA ==
    /\ obj = StructuralAnalysisInit
    /\ \/ method = "design" /\ parameters \in SADesignCalls
       \/ method \in {"verify", "check_requirements"}
          /\ parameters \in SAPlaceholderCalls

---------------------------------------------------------------------------
Init ==
    /\ InitPS \/ InitLA \/ InitSA
    /\ pc = "called"
    /\ ret = Null
    /\ exc = Null
    /\ trace = <<>>
    /\ heap = InitHeap
    /\ log = <<>>

Next ==
    \/ PSDesign
    \/ PSVerify
    \/ PSCheckRequirements
    \/ LADesign
    \/ LAVerify
    \/ LACheckRequirements
    \/ SADesign
    \/ SAVerify
    \/ SACheckRequirements

Spec == Init /\ [][Next]_vars

---------------------------------------------------------------------------
(* Several calls in a row on one step object *)

Call(m, p) == [method |-> m, parameters |-> p]

\* the calls a caller makes in a row on a step object
SeqCalls(step) ==
    IF step = "preliminary_sizing"
    THEN {Call("design", [span_length |-> v, depth |-> Absent, width |-> Absent]) :
              v \in {Absent, PyFloat(0, 1), PyFloat(64, 1), PyFloat(240, 1)}}
         \cup {Call("verify", p) :
                  p \in [span_length : {PyFloat(120, 1)},
                         depth : {Absent, PyFloat(20, 1)},
                         width : {PyFloat(10, 1), PyFloat(20, 1)}]}
         \cup {Call("check_requirements", None)}
    ELSE IF step = "load_analysis"
    THEN {Call("design", p) :
              p \in [dead_load : {Absent, PyFloat(5, 2)},
                     live_load : {Absent, PyFloat(9, 5)},
                     roof_live_load : {Absent}, snow_load : {Absent, PyFloat(0, 1),
                                                            PyFloat(1, 1)},
                     rain_load : {Absent}, wind_load : {Absent},
                     seismic_load : {Absent}]}
         \cup {Call("verify", None), Call("check_requirements", None)}
    ELSE {Call("design", p) :
              p \in [span_length : {PyFloat(0, 1), PyFloat(20, 1)},
                     factored_load : {PyFloat(5, 2)},
                     num_points : {Absent, PyInt(1), PyInt(3)}]}
         \cup {Call("verify", None), Call("check_requirements", None)}

InitSeq ==
    /\ obj \in {PreliminarySizingInit, LoadAnalysisInit, StructuralAnalysisInit}
    /\ \E c \in SeqCalls(obj.step_name) :
          method = c.method /\ parameters = c.parameters
    /\ pc = "called"
    /\ ret = Null
    /\ exc = Null
    /\ trace = <<>>
    /\ heap = InitHeap
    /\ log = <<>>

\* the caller keeps the outcome and makes its next call on the same object
CallAgain ==
    /\ pc \in {"returned", "raised"}
    /\ Len(log) < MaxCalls - 1
    /\ log' = Append(log, [method |-> method, parameters |-> parameters,
                           ret |-> ret, exc |-> exc, id |-> heap.ret])
    /\ \E c \in SeqCalls(obj.step_name) :
          method' = c.method /\ parameters' = c.parameters
    /\ pc' = "called"
    /\ ret' = Null
    /\ exc' = Null
    /\ trace' = <<>>
    /\ heap' = [heap EXCEPT !.ret = 0]
    /\ UNCHANGED obj

NextSeq ==
    \/ Next
    \/ CallAgain

SpecSeq == InitSeq /\ [][NextSeq]_vars

---------------------------------------------------------------------------
(* Properties *)

Returned(step, m) == pc = "returned" /\ obj.step_name = step /\ method = m
Finished(step, m) == pc # "called" /\ obj.step_name = step /\ method = m

\* the value is a number > 0
ValidPositive(v) == v.k \in {"int", "float"} /\ v.q[1] > 0
\* the value is supplied and is not a number, or is a number <= 0
Invalid(v) == v # Absent /\ ~ValidPositive(v)

\* C1: for every positive span_length, PreliminarySizing.design returns a depth
\* that is an even integer >= span_length/16 and a width that is an even integer
\* with depth/2 <= width <= 2*depth/3.
C1_DesignDimensionsInBand ==
    Returned("preliminary_sizing", "design") =>
        LET span == parameters.span_length.q
            d    == ret.final_dimensions.depth
            w    == ret.final_dimensions.width
        IN  /\ d % 2 = 0
            /\ 16 * d * span[2] >= span[1]
            /\ w % 2 = 0
            /\ d <= 2 * w
            /\ 3 * w <= 2 * d

\* C2: for every valid StructuralAnalysis.design call the three diagram series
\* have the same length, which is the supplied num_points, or 21 when num_points
\* is omitted, and equals the num_points echoed in results.inputs.
C2_DiagramLengthIsNumPoints ==
    Returned("structural_analysis", "design") =>
        LET n == Len(ret.diagrams.x_coordinates)
        IN  /\ Len(ret.diagrams.shear_values) = n
            /\ Len(ret.diagrams.moment_values) = n
            /\ n = (IF parameters.num_points = Absent THEN 21
                    ELSE parameters.num_points.q[1])
            /\ n = ret.inputs.num_points.q[1]

Supplied(key) == parameters[key] # Absent
KeySet(entries) == {entries[i].key : i \in 1..Len(entries)}
RoofKeys == {"roof_live_load", "snow_load", "rain_load"}

\* C3: for every successful LoadAnalysis.design call the key set of
\* load_combinations is U1 always, U2 iff live_load is supplied, U3 iff one of
\* roof_live_load, snow_load, rain_load is supplied (a supplied 0 counts),
\* U4 and U6 iff wind_load is supplied, U5 and U7 iff seismic_load is supplied.
C3_CombinationKeysFollowPresence ==
    Returned("load_analysis", "design") =>
        KeySet(ret.load_combinations) =
            {"U1"}
            \cup (IF Supplied("live_load") THEN {"U2"} ELSE {})
            \cup (IF \E k \in RoofKeys : Supplied(k) THEN {"U3"} ELSE {})
            \cup (IF Supplied("wind_load") THEN {"U4", "U6"} ELSE {})
            \cup (IF Supplied("seismic_load") THEN {"U5", "U7"} ELSE {})

\* the largest of a non-empty finite set of rationals
MaxOfSet(S) == CHOOSE m \in S : \A x \in S : x[1] * m[2] <= m[1] * x[2]
\* the largest of the supplied roof loads Lr, S, R, or 0 when none is supplied
RoofMax ==
    LET present == {parameters[k].q : k \in {k \in RoofKeys : Supplied(k)}}
    IN  IF present = {} THEN <<0, 1>> ELSE MaxOfSet(present)
\* a supplied optional load, or 0 when it is absent
LoadOrZero(key) == IF Supplied(key) THEN parameters[key].q ELSE <<0, 1>>
EntryOf(entries, key) == CHOOSE i \in 1..Len(entries) : entries[i].key = key
HasEntry(entries, key) == \E i \in 1..Len(entries) : entries[i].key = key
\* the entry `key` has the value q
ValueIs(entries, key, q) == QEq(entries[EntryOf(entries, key)].value, q)
\* x/10 times q
Tenths(x, q) == QMul(<<x, 10>>, q)
Sum(qs) == IF Len(qs) = 2 THEN QAdd(qs[1], qs[2])
           ELSE IF Len(qs) = 3 THEN QAdd(QAdd(qs[1], qs[2]), qs[3])
           ELSE QAdd(QAdd(qs[1], qs[2]), QAdd(qs[3], qs[4]))

\* C4: whenever dead_load is valid and one of roof_live_load, snow_load, rain_load
\* is supplied, LoadAnalysis.design succeeds and reports
\* U3 = 1.2*D + 1.6*max(supplied Lr,S,R) + m, m the largest of the supplied ones
\* among L and 0.5*W, and 0 when neither is supplied.
C4_RoofCombinationAlwaysComputed ==
    (/\ Finished("load_analysis", "design")
     /\ ValidPositive(parameters.dead_load)
     /\ \E k \in RoofKeys : Supplied(k))
    => /\ pc = "returned"
       /\ HasEntry(ret.load_combinations, "U3")
       /\ LET D == parameters.dead_load.q
              pool == (IF Supplied("live_load")
                       THEN {parameters.live_load.q} ELSE {})
                      \cup (IF Supplied("wind_load")
                            THEN {Tenths(5, parameters.wind_load.q)} ELSE {})
              m == IF pool = {} THEN <<0, 1>> ELSE MaxOfSet(pool)
          IN  ValueIs(ret.load_combinations, "U3",
                      Sum(<<Tenths(12, D), Tenths(16, RoofMax), m>>))

\* C5: for every successful LoadAnalysis.design call each included combination
\* other than U3 has its table value: U1 = 1.4D, U2 = 1.2D + 1.6L + 0.5a,
\* U4 = 1.2D + W + (L or 0) + 0.5a, U5 = 1.2D + E + (L or 0) + 0.2(S or 0),
\* U6 = 0.9D + W, U7 = 0.9D + E, a the largest of the supplied ones among
\* Lr, S, R (a supplied 0 is a candidate) and 0 when none is supplied.
C5_CombinationValuesFollowTable ==
    Returned("load_analysis", "design") =>
        LET e  == ret.load_combinations
            D  == parameters.dead_load.q
            L  == LoadOrZero("live_load")
            S  == LoadOrZero("snow_load")
            W  == LoadOrZero("wind_load")
            E  == LoadOrZero("seismic_load")
            a  == RoofMax
            Is(key, q) == HasEntry(e, key) => ValueIs(e, key, q)
        IN  /\ Is("U1", Tenths(14, D))
            /\ Is("U2", Sum(<<Tenths(12, D), Tenths(16, L), Tenths(5, a)>>))
            /\ Is("U4", Sum(<<Tenths(12, D), W, L, Tenths(5, a)>>))
            /\ Is("U5", Sum(<<Tenths(12, D), E, L, Tenths(2, S)>>))
            /\ Is("U6", Sum(<<Tenths(9, D), W>>))
            /\ Is("U7", Sum(<<Tenths(9, D), E>>))

\* C6: after every successful LoadAnalysis.design call controlling_load is set,
\* its value is the maximum over all entries of load_combinations, and its key
\* is the earliest key in insertion order whose value equals that maximum.
C6_ControllingLoadIsFirstMaximum ==
    Returned("load_analysis", "design") =>
        LET e == ret.load_combinations
            c == ret.controlling_load
        IN  /\ c # None
            /\ \A i \in 1..Len(e) : e[i].value[1] * c.value[2]
                                        <= c.value[1] * e[i].value[2]
            /\ \E i \in 1..Len(e) :
                  /\ e[i].key = c.combination
                  /\ e[i].value = c.value
                  /\ \A j \in 1..(i - 1) : e[j].value # c.value

\* two combinations tie at the maximum and the earlier one is reported
C6_TieAtMaximum ==
    /\ Returned("load_analysis", "design")
    /\ \E i, j \in 1..Len(ret.load_combinations) :
          /\ i < j
          /\ ret.load_combinations[i].value = ret.controlling_load.value
          /\ ret.load_combinations[j].value = ret.controlling_load.value
          /\ ret.load_combinations[i].key = ret.controlling_load.combination

Steps == {"preliminary_sizing", "load_analysis", "structural_analysis"}
\* the required parameters of design, in the order the step validates them
Required(step) ==
    IF step = "preliminary_sizing" THEN <<"span_length">>
    ELSE IF step = "load_analysis" THEN <<"dead_load">>
    ELSE <<"span_length", "factored_load">>
\* the text of the step's InputError for a missing required parameter
MissingText(step) ==
    IF step = "preliminary_sizing" THEN "Required for design mode"
    ELSE IF step = "load_analysis" THEN "Required for load analysis"
    ELSE "Required for structural analysis"
SomeRequiredMissing(step) ==
    \E i \in 1..Len(Required(step)) : ~Supplied(Required(step)[i])
SomeRequiredInvalid(step) ==
    \E i \in 1..Len(Required(step)) : Invalid(parameters[Required(step)[i]])
\* the first required parameter, in validation order, that is missing or invalid
FirstOffending(step) ==
    LET req == Required(step)
        bad(i) == ~Supplied(req[i]) \/ Invalid(parameters[req[i]])
    IN  req[CHOOSE i \in 1..Len(req) : bad(i) /\ \A j \in 1..(i - 1) : ~bad(j)]
WrappedText(p, text) == <<"Invalid input parameter '", p, "': ", text>>

\* C7 (as stated): design with a required parameter missing always fails with a
\* DesignError tagged with the step's name whose message is the wrapped InputError
\* text citing the name of the missing parameter, and returns no results.
C7_MissingParameterIsCited ==
    \A step \in Steps :
        (Finished(step, "design") /\ SomeRequiredMissing(step)) =>
            /\ pc = "raised"
            /\ ret = Null
            /\ exc.kind = "DesignError"
            /\ exc.step = step
            /\ \E i \in 1..Len(Required(step)) :
                  /\ ~Supplied(Required(step)[i])
                  /\ exc.message = WrappedText(Required(step)[i], MissingText(step))

\* C7 (amended): design with a required parameter missing always fails with a
\* DesignError tagged with the step's name and returns no results; its message is
\* the wrapped InputError text of the first required parameter, in validation
\* order, that is missing or invalid: the missing parameter, unless an earlier
\* required parameter is non-numeric or <= 0, which is then the one cited.
C7_FirstOffendingParameterIsCited ==
    \A step \in Steps :
        (Finished(step, "design") /\ SomeRequiredMissing(step)) =>
            /\ pc = "raised"
            /\ ret = Null
            /\ exc.kind = "DesignError"
            /\ exc.step = step
            /\ LET p == FirstOffending(step)
               IN  exc.message =
                       WrappedText(p, IF ~Supplied(p) THEN MissingText(step)
                                      ELSE IF parameters[p].k \in {"int", "float"}
                                           THEN "Must be positive"
                                           ELSE "Must be a number")

\* a second required parameter is missing behind a valid first one, and is cited
C7_SecondParameterMissing ==
    /\ pc = "raised"
    /\ obj.step_name = "structural_analysis"
    /\ ValidPositive(parameters.span_length)
    /\ ~Supplied("factored_load")
    /\ exc.message = WrappedText("factored_load", "Required for structural analysis")

\* C8: for each step, if a required numeric parameter of design is non-numeric or
\* <= 0 the call is rejected by validation before any calculation step runs:
\* design raises and returns no results object.
C8_InvalidInputRejectedBeforeCalculation ==
    \A step \in Steps :
        (Finished(step, "design") /\ SomeRequiredInvalid(step)) =>
            /\ pc = "raised"
            /\ ret = Null
            /\ exc.kind = "DesignError"
            /\ Len(trace) = 1
            /\ trace[1] \in {"_validate_inputs", "_validate_design_inputs"}

\* a zero load behind a valid span is rejected
C8_ZeroLoadRejected ==
    /\ pc = "raised"
    /\ obj.step_name = "structural_analysis"
    /\ ValidPositive(parameters.span_length)
    /\ parameters.factored_load.k = "float"
    /\ parameters.factored_load.q[1] = 0
    /\ trace = <<"_validate_inputs">>

\* C9: for positive span_length L and factored_load wu with num_points omitted,
\* StructuralAnalysis.design yields Ra = Rb = Vmax = wu*L/2, Mmax = wu*L^2/8, and
\* a diagram (to 2 decimals) whose first sample is x = 0 with shear Vmax, whose
\* last sample is x = L with shear -Vmax, and which has a sample at x = L/2 whose
\* moment is Mmax.
C9_DefaultDiagramHasMidspanSample ==
    (Returned("structural_analysis", "design") /\ ~Supplied("num_points")) =>
        LET L    == parameters.span_length.q
            wu   == parameters.factored_load.q
            Vmax == QDiv(QMul(wu, L), <<2, 1>>)
            Mmax == QDiv(QMul(wu, QMul(L, L)), <<8, 1>>)
            d    == ret.diagrams
            n    == Len(d.x_coordinates)
        IN  /\ QEq(ret.reactions.Ra, Vmax)
            /\ QEq(ret.reactions.Rb, Vmax)
            /\ QEq(ret.maximum_values.shear.value, Vmax)
            /\ QEq(ret.maximum_values.moment.value, Mmax)
            /\ d.x_coordinates[1] = <<0, 1>>
            /\ d.shear_values[1] = Round2(Vmax)
            /\ d.x_coordinates[n] = Round2(L)
            /\ d.shear_values[n] = Round2(QNeg(Vmax))
            /\ \E i \in 1..n :
                  /\ d.x_coordinates[i] = Round2(QDiv(L, <<2, 1>>))
                  /\ d.moment_values[i] = Round2(Mmax)

\* C10: PreliminarySizing.verify on valid input reports the depth check as PASS
\* iff depth >= span_length/16, the width check as PASS iff
\* depth/2 <= width <= 2*depth/3, and overall.passed iff both checks are PASS.
C10_VerifyChecks ==
    Returned("preliminary_sizing", "verify") =>
        LET span == parameters.span_length.q
            h    == parameters.depth.q
            b    == parameters.width.q
        IN  /\ (ret.checks.depth.status = "PASS")
                   <=> (16 * h[1] * span[2] >= span[1] * h[2])
            /\ (ret.checks.width.status = "PASS")
                   <=> (/\ 2 * b[1] * h[2] >= h[1] * b[2]
                        /\ 3 * b[1] * h[2] <= 2 * h[1] * b[2])
            /\ ret.checks.depth.status \in {"PASS", "FAIL"}
            /\ ret.checks.width.status \in {"PASS", "FAIL"}
            /\ ret.overall.passed
                   <=> (/\ ret.checks.depth.status = "PASS"
                        /\ ret.checks.width.status = "PASS")

\* depth is exactly span/16 and width exactly 2*depth/3: both checks pass
C10_BoundaryPasses ==
    /\ Returned("preliminary_sizing", "verify")
    /\ 16 * parameters.depth.q[1] * parameters.span_length.q[2]
           = parameters.span_length.q[1] * parameters.depth.q[2]
    /\ 3 * parameters.width.q[1] * parameters.depth.q[2]
           = 2 * parameters.depth.q[1] * parameters.width.q[2]
    /\ ret.overall.passed

\* the parameters of PreliminarySizing.verify, in validation order
VerifyKeys == <<"span_length", "depth", "width">>
Malformed(key) == ~Supplied(key) \/ Invalid(parameters[key])
FirstMalformed ==
    VerifyKeys[CHOOSE i \in 1..3 :
                   Malformed(VerifyKeys[i])
                   /\ \A j \in 1..(i - 1) : ~Malformed(VerifyKeys[j])]

\* C11: PreliminarySizing.verify with malformed input (span_length, depth or
\* width missing, non-numeric or <= 0) always fails with a VerificationError
\* tagged preliminary_sizing that reports the first offending parameter in the
\* order span_length, depth, width; no InputError or DesignError reaches the
\* caller and no pass/fail report is returned.
C11_MalformedVerifyInputRaisesVerificationError ==
    (/\ Finished("preliminary_sizing", "verify")
     /\ \E i \in 1..3 : Malformed(VerifyKeys[i]))
    => /\ pc = "raised"
       /\ ret = Null
       /\ exc.kind = "VerificationError"
       /\ exc.step = "preliminary_sizing"
       /\ LET p == FirstMalformed
          IN  exc.message =
                  WrappedText(p, IF ~Supplied(p) THEN "Required for verification"
                                 ELSE IF parameters[p].k \in {"int", "float"}
                                      THEN "Must be positive"
                                      ELSE "Must be a number")

\* span_length is fine, depth is 0 and width is missing: depth is reported
C11_SecondParameterReported ==
    /\ pc = "raised"
    /\ obj.step_name = "preliminary_sizing"
    /\ method = "verify"
    /\ ValidPositive(parameters.span_length)
    /\ parameters.depth.k = "float"
    /\ parameters.depth.q[1] = 0
    /\ ~Supplied("width")
    /\ exc.message = WrappedText("depth", "Must be positive")

\* num_points is supplied and is not an integer >= 2
BadNumPoints ==
    /\ Supplied("num_points")
    /\ ~(parameters.num_points.k = "int" /\ parameters.num_points.q[1] >= 2)
GoodNumPoints ==
    /\ Supplied("num_points")
    /\ parameters.num_points.k = "int"
    /\ parameters.num_points.q[1] >= 2
NumPointsText == WrappedText("num_points", "Must be integer >= 2")

\* C12 (as stated): StructuralAnalysis.design with num_points present but not an
\* integer >= 2 fails with the InputError for num_points wrapped in a DesignError
\* for structural_analysis and produces no diagram; with num_points an integer
\* >= 2 the num_points check never rejects the call.
C12_BadNumPointsIsCited ==
    Finished("structural_analysis", "design") =>
        /\ BadNumPoints =>
              /\ pc = "raised"
              /\ ret = Null
              /\ exc.kind = "DesignError"
              /\ exc.step = "structural_analysis"
              /\ exc.message = NumPointsText
        /\ GoodNumPoints => (pc = "raised" => exc.message # NumPointsText)

\* C12 (amended): with num_points present but not an integer >= 2 design always
\* fails with a DesignError for structural_analysis and produces no diagram; the
\* wrapped InputError is the one for num_points when span_length and
\* factored_load are present and valid, and otherwise the one for the first of
\* them that is missing or invalid.  With num_points an integer >= 2 the
\* num_points check never rejects the call.
C12_BadNumPointsRejected ==
    Finished("structural_analysis", "design") =>
        /\ BadNumPoints =>
              /\ pc = "raised"
              /\ ret = Null
              /\ exc.kind = "DesignError"
              /\ exc.step = "structural_analysis"
              /\ IF ValidPositive(parameters.span_length)
                    /\ ValidPositive(parameters.factored_load)
                 THEN exc.message = NumPointsText
                 ELSE exc.message[2] = FirstOffending("structural_analysis")
        /\ GoodNumPoints =>
              /\ pc = "raised" => exc.message # NumPointsText
              /\ (ValidPositive(parameters.span_length)
                  /\ ValidPositive(parameters.factored_load)) => pc = "returned"

\* a num_points of 3.0 (a float, not an integer) behind valid loads is rejected
C12_FloatNumPointsRejected ==
    /\ pc = "raised"
    /\ obj.step_name = "structural_analysis"
    /\ ValidPositive(parameters.span_length)
    /\ ValidPositive(parameters.factored_load)
    /\ parameters.num_points.k = "float"
    /\ exc.message = NumPointsText

\* the smallest even integer >= q, among 0..top
SmallestEvenAtLeast(q, top) ==
    CHOOSE e \in 0..top :
        /\ e % 2 = 0
        /\ e * q[2] >= q[1]
        /\ \A f \in 0..top : (f % 2 = 0 /\ f * q[2] >= q[1]) => e <= f

\* C15: in PreliminarySizing.design the width is round_up_even of the band
\* midpoint (depth/2 + 2*depth/3)/2 clamped into
\* [round_up_even(depth/2), round_up_even(2*depth/3)], round_up_even(v) being the
\* smallest even integer >= v; so round_up_even(depth/2) <= width <=
\* round_up_even(2*depth/3).
C15_WidthIsClampedRoundedMidpoint ==
    Returned("preliminary_sizing", "design") =>
        LET d   == ret.final_dimensions.depth
            w   == ret.final_dimensions.width
            lo  == SmallestEvenAtLeast(<<d, 2>>, d + 2)
            hi  == SmallestEvenAtLeast(<<2 * d, 3>>, d + 2)
            mid == SmallestEvenAtLeast(<<7 * d, 12>>, d + 2)
            up  == IF mid > lo THEN mid ELSE lo
        IN  /\ w = (IF up < hi THEN up ELSE hi)
            /\ lo <= w
            /\ w <= hi

\* a design whose width exceeds 2*depth/3 and sits on the rounded upper limit
C15_WidthOnRoundedUpperLimit ==
    /\ Returned("preliminary_sizing", "design")
    /\ ret.final_dimensions.depth >= 4
    /\ 3 * ret.final_dimensions.width > 2 * ret.final_dimensions.depth
    /\ ret.final_dimensions.width
           = SmallestEvenAtLeast(<<2 * ret.final_dimensions.depth, 3>>,
                                 ret.final_dimensions.depth + 2)

\* C13: the placeholder operations never fail, whatever their argument:
\* LoadAnalysis.verify and StructuralAnalysis.verify always return a result with
\* status = "not_implemented", and check_requirements of all three steps always
\* returns a result with passed = true.
C13_PlaceholdersNeverFail ==
    /\ (pc # "called" /\ method = "check_requirements") =>
           /\ pc = "returned"
           /\ exc = Null
           /\ ret.passed = TRUE
    /\ (pc # "called" /\ method = "verify"
        /\ obj.step_name \in {"load_analysis", "structural_analysis"}) =>
           /\ pc = "returned"
           /\ exc = Null
           /\ ret.status = "not_implemented"

\* LoadAnalysis.verify has returned for an argument design would reject
C13_VerifyOfInvalidArgument ==
    /\ pc = "returned"
    /\ obj.step_name = "load_analysis"
    /\ method = "verify"
    /\ parameters # None
    /\ ~Supplied("dead_load")
    /\ ret.status = "not_implemented"

\* the identities of the objects that exist before the call returns
KnownObjects ==
    {heap.self_results, heap.args} \cup {log[i].id : i \in 1..Len(log)}

\* C14: every design and verify call is a pure function of its parameters: it
\* leaves the step object's fields (step_name, results, min_depth_factor) and
\* the caller's parameter mapping unchanged, returns a freshly allocated results
\* object, and earlier calls on the same object do not change what a later call
\* returns for the same input.
C14_CallsArePure ==
    [][(pc = "called" /\ pc' # "called") =>
          /\ obj' = obj
          /\ parameters' = parameters
          /\ pc' = "returned" => heap'.ret \notin KnownObjects
          /\ \A i \in 1..Len(log) :
                (log[i].method = method /\ log[i].parameters = parameters) =>
                    (log[i].ret = ret' /\ log[i].exc = exc')]_vars

\* a design call is repeated after a different call on the same object and
\* returns the same results in a new object
C14_RepeatedCallReturned ==
    /\ pc = "returned"
    /\ method = "design"
    /\ Len(log) = 2
    /\ log[1].method = method
    /\ log[1].parameters = parameters
    /\ log[2].method = "verify"
    /\ log[1].ret = ret
    /\ heap.ret \notin KnownObjects

=============================================================================
